---- MODULE Spec2Model ----
(***************************************************************************)
(* Model of lib/review.py: the Review class, its validating property       *)
(* setters, the class-level identity cache Review.all and the CRUD methods *)
(* mapped onto the SQLite table "reviews".                                 *)
(*                                                                         *)
(* Python values are tagged records [kind, n, chars] so that isinstance    *)
(* checks are computed; None is encoded as 0 wherever an id is expected    *)
(* (generated and enumerated ids are >= 1).                                *)
(*                                                                         *)
(* The decorator at line 45 of lib/review.py is indented one level too     *)
(* deep; it is read as the @property of the employee getter it precedes.   *)
(*                                                                         *)
(* Employee lives in another module: find_by_id and the nullable id are    *)
(* modelled from its contract, and the collaborator may persist or delete  *)
(* an Employee between two calls on Review.                                *)
(***************************************************************************)
EXTENDS Integers, Sequences, FiniteSets, TLC

\* ---------------------------------------------------------------- bounds
MaxObjs == 2          \* live Review instances held by the caller
MaxId == 2            \* largest rowid the reviews table hands out
MaxOps == 3           \* calls made in one run
MaxCalls == 4         \* calls made in one run on stored reviews only

\* ------------------------------------------------------ program constants
None == 0
MinYear == 2000

NoErr == "none"
ValueError == "ValueError"
OperationalError == "OperationalError"

\* ----------------------------------------------------------------- values
IntVal(n) == [kind |-> "int", n |-> n, chars |-> <<>>]
BoolVal(n) == [kind |-> "bool", n |-> n, chars |-> <<>>]
StrVal(cs) == [kind |-> "str", n |-> 0, chars |-> cs]
EmpVal(e) == [kind |-> "emp", n |-> e, chars |-> <<>>]
NoneVal == [kind |-> "none", n |-> 0, chars |-> <<>>]

\* isinstance(value, int): bool is a subclass of int
IsInt(v) == v.kind \in {"int", "bool"}
IsStr(v) == v.kind = "str"
IsEmployee(v) == v.kind = "emp"

IsSpace(c) == c \in {" ", "\t"}

RECURSIVE LStrip(_)
LStrip(cs) ==
    IF cs = <<>> THEN <<>>
    ELSE IF IsSpace(Head(cs)) THEN LStrip(Tail(cs)) ELSE cs

RECURSIVE RStrip(_)
RStrip(cs) ==
    IF cs = <<>> THEN <<>>
    ELSE IF IsSpace(cs[Len(cs)]) THEN RStrip(SubSeq(cs, 1, Len(cs) - 1)) ELSE cs

\* str.strip()
Strip(cs) == RStrip(LStrip(cs))

\* ------------------------------------------------------------------ state
VARIABLES
    heap,         \* live Review instances: sequence of [id, year, summary, employee]
    all,          \* Review.all: id -> index of the instance in heap
    tableExists,  \* the reviews table exists
    rows,         \* rows of reviews in rowid order: [id, year, summary, employee_id]
    empId,        \* Employee objects: empId[e] is e's id, None while not persisted
    last,         \* the last operation: what was called and how it ended
    ops,          \* number of calls made so far
    limit         \* number of calls the run makes

vars == <<heap, all, tableExists, rows, empId, last, ops, limit>>

\* the Employee objects of the collaborator
Employees == {1, 2}
Ids == 1..MaxId

\* dict helpers
Put(f, k, v) == [x \in DOMAIN f \cup {k} |-> IF x = k THEN v ELSE f[x]]
Remove(f, k) == [x \in DOMAIN f \ {k} |-> f[x]]
Get(f, k) == IF k \in DOMAIN f THEN f[k] ELSE None

\* Employee.find_by_id(id): the persisted Employee with that id, or None
EmployeeFindById(k) ==
    IF k # None /\ \E e \in Employees : empId[e] = k
    THEN CHOOSE e \in Employees : empId[e] = k
    ELSE None

RowIds(rs) == {rs[i].id : i \in 1..Len(rs)}
RowOf(rs, i) == rs[CHOOSE k \in 1..Len(rs) : rs[k].id = i]

\* ------------------------------------------------------ property setters
\* A setter takes and returns R = [obj, err]; once err is set the rest of the
\* method body is skipped (the exception propagates).

\* year_setter without the range check
year_setter_unchecked(R, value) ==
    IF R.err # NoErr THEN R
    ELSE [R EXCEPT !.obj.year = value.n]

\* year_setter assigning before it validates
year_setter_assign_first(R, value) ==
    IF R.err # NoErr THEN R
    ELSE IF ~IsInt(value) \/ value.n < MinYear
    THEN [R EXCEPT !.obj.year = value.n, !.err = ValueError]
    ELSE [R EXCEPT !.obj.year = value.n]

year_setter(R, value) ==
    IF R.err # NoErr THEN R
    ELSE IF ~IsInt(value) \/ value.n < MinYear
    THEN [R EXCEPT !.err = ValueError]
    ELSE [R EXCEPT !.obj.year = value.n]

summary_setter(R, value) ==
    IF R.err # NoErr THEN R
    ELSE IF ~IsStr(value) \/ Len(Strip(value.chars)) = 0
    THEN [R EXCEPT !.err = ValueError]
    ELSE [R EXCEPT !.obj.summary = value.chars]

\* employee_setter accepting an Employee instance without looking at its id
employee_setter_unchecked(R, value) ==
    IF R.err # NoErr THEN R
    ELSE IF IsEmployee(value)
    THEN [R EXCEPT !.obj.employee = value.n]
    ELSE IF IsInt(value)
    THEN LET employee == EmployeeFindById(value.n)
         IN IF employee = None
            THEN [R EXCEPT !.err = ValueError]
            ELSE [R EXCEPT !.obj.employee = employee]
    ELSE [R EXCEPT !.err = ValueError]

employee_setter(R, value) ==
    IF R.err # NoErr THEN R
    ELSE IF IsEmployee(value)
    THEN IF empId[value.n] = None
         THEN [R EXCEPT !.err = ValueError]
         ELSE [R EXCEPT !.obj.employee = value.n]
    ELSE IF IsInt(value)
    THEN LET employee == EmployeeFindById(value.n)
         IN IF employee = None
            THEN [R EXCEPT !.err = ValueError]
            ELSE [R EXCEPT !.obj.employee = employee]
    ELSE [R EXCEPT !.err = ValueError]

employee_id_setter(R, value) ==
    IF R.err # NoErr THEN R
    ELSE IF ~IsInt(value)
    THEN [R EXCEPT !.err = ValueError]
    ELSE LET employee == EmployeeFindById(value.n)
         IN IF employee = None
            THEN [R EXCEPT !.err = ValueError]
            ELSE employee_setter(R, EmpVal(employee))

\* employee_id property: the employee's id, None when no employee is set
employee_id(obj) == IF obj.employee # None THEN empId[obj.employee] ELSE None

\* Review.__init__
Review(year, summary, employee, id) ==
    employee_setter(
        summary_setter(
            year_setter([obj |-> [id |-> id, year |-> 0, summary |-> <<>>,
                                  employee |-> None],
                         err |-> NoErr], year),
            summary),
        employee)

\* ------------------------------------------------------------ ORM methods
\* A method takes and returns a world W = [heap, all, rows, tableExists, err,
\* ret, full]: err is the exception that ended it, ret the returned instances,
\* full is set when the call would need more than the bounds provide.

World ==
    [heap |-> heap, all |-> all, rows |-> rows, tableExists |-> tableExists,
     err |-> NoErr, ret |-> <<>>, full |-> FALSE]

\* CURSOR.lastrowid of an INSERT without an id: largest rowid + 1
lastrowid(rs) == IF rs = <<>> THEN 1 ELSE rs[Len(rs)].id + 1

\* create_table without IF NOT EXISTS: an existing table is an error
create_table_strict(W) ==
    IF W.tableExists THEN [W EXCEPT !.err = OperationalError]
    ELSE [W EXCEPT !.tableExists = TRUE]

create_table(W) == [W EXCEPT !.tableExists = TRUE]

drop_table(W) == [W EXCEPT !.tableExists = FALSE, !.rows = <<>>]

\* update whose UPDATE statement has no WHERE clause
update_every_row(W, self) ==
    IF ~W.tableExists THEN [W EXCEPT !.err = OperationalError]
    ELSE LET o == W.heap[self]
         IN [W EXCEPT
               !.rows = [k \in 1..Len(W.rows) |->
                           [id |-> W.rows[k].id, year |-> o.year,
                            summary |-> o.summary,
                            employee_id |-> empId[o.employee]]],
               !.all = Put(W.all, o.id, self)]

\* update whose UPDATE statement leaves the summary column out
update_no_summary(W, self) ==
    IF ~W.tableExists THEN [W EXCEPT !.err = OperationalError]
    ELSE LET o == W.heap[self]
         IN [W EXCEPT
               !.rows = [k \in 1..Len(W.rows) |->
                           IF o.id # None /\ W.rows[k].id = o.id
                           THEN [id |-> o.id, year |-> o.year,
                                 summary |-> W.rows[k].summary,
                                 employee_id |-> empId[o.employee]]
                           ELSE W.rows[k]],
               !.all = Put(W.all, o.id, self)]

update(W, self) ==
    IF ~W.tableExists THEN [W EXCEPT !.err = OperationalError]
    ELSE LET o == W.heap[self]
         IN [W EXCEPT
               !.rows = [k \in 1..Len(W.rows) |->
                           IF o.id # None /\ W.rows[k].id = o.id
                           THEN [id |-> o.id, year |-> o.year,
                                 summary |-> o.summary,
                                 employee_id |-> empId[o.employee]]
                           ELSE W.rows[k]],
               !.all = Put(W.all, o.id, self)]

\* save whose insert branch does not register the instance in the cache
save_insert_unregistered(W, self) ==
    IF W.heap[self].id = None
    THEN IF ~W.tableExists THEN [W EXCEPT !.err = OperationalError]
         ELSE IF lastrowid(W.rows) > MaxId THEN [W EXCEPT !.full = TRUE]
         ELSE LET o == W.heap[self]
                  newid == lastrowid(W.rows)
              IN [W EXCEPT
                    !.rows = Append(W.rows,
                                [id |-> newid, year |-> o.year,
                                 summary |-> o.summary,
                                 employee_id |-> empId[o.employee]]),
                    !.heap[self].id = newid,
                    !.ret = <<self>>]
    ELSE LET U == update(W, self)
         IN IF U.err # NoErr THEN U ELSE [U EXCEPT !.ret = <<self>>]

\* save inserting the stripped summary
save_strips(W, self) ==
    IF W.heap[self].id = None
    THEN IF ~W.tableExists THEN [W EXCEPT !.err = OperationalError]
         ELSE IF lastrowid(W.rows) > MaxId THEN [W EXCEPT !.full = TRUE]
         ELSE LET o == W.heap[self]
                  newid == lastrowid(W.rows)
              IN [W EXCEPT
                    !.rows = Append(W.rows,
                                [id |-> newid, year |-> o.year,
                                 summary |-> Strip(o.summary),
                                 employee_id |-> empId[o.employee]]),
                    !.heap[self].id = newid,
                    !.all = Put(W.all, newid, self),
                    !.ret = <<self>>]
    ELSE LET U == update(W, self)
         IN IF U.err # NoErr THEN U ELSE [U EXCEPT !.ret = <<self>>]

\* save that inserts whether or not the instance has an id
save_always_inserts(W, self) ==
    IF ~W.tableExists THEN [W EXCEPT !.err = OperationalError]
    ELSE IF lastrowid(W.rows) > MaxId THEN [W EXCEPT !.full = TRUE]
    ELSE LET o == W.heap[self]
             newid == lastrowid(W.rows)
         IN [W EXCEPT
               !.rows = Append(W.rows,
                           [id |-> newid, year |-> o.year,
                            summary |-> o.summary,
                            employee_id |-> empId[o.employee]]),
               !.heap[self].id = newid,
               !.all = Put(W.all, newid, self),
               !.ret = <<self>>]

save(W, self) ==
    IF W.heap[self].id = None
    THEN IF ~W.tableExists THEN [W EXCEPT !.err = OperationalError]
         ELSE IF lastrowid(W.rows) > MaxId THEN [W EXCEPT !.full = TRUE]
         ELSE LET o == W.heap[self]
                  newid == lastrowid(W.rows)
              IN [W EXCEPT
                    !.rows = Append(W.rows,
                                [id |-> newid, year |-> o.year,
                                 summary |-> o.summary,
                                 employee_id |-> empId[o.employee]]),
                    !.heap[self].id = newid,
                    !.all = Put(W.all, newid, self),
                    !.ret = <<self>>]
    ELSE LET U == update(W, self)
         IN IF U.err # NoErr THEN U ELSE [U EXCEPT !.ret = <<self>>]

\* create writing the row before the arguments are validated
create_inserts_first(W, year, summary, employee_id_arg) ==
    LET employee == IF IsInt(employee_id_arg)
                    THEN EmployeeFindById(employee_id_arg.n) ELSE None
        R == Review(year, summary, EmpVal(employee), None)
        written == IF W.tableExists /\ lastrowid(W.rows) <= MaxId
                   THEN Append(W.rows,
                               [id |-> lastrowid(W.rows), year |-> year.n,
                                summary |-> summary.chars,
                                employee_id |-> employee])
                   ELSE W.rows
    IN IF employee = None THEN [W EXCEPT !.err = ValueError]
       ELSE IF R.err # NoErr THEN [W EXCEPT !.rows = written, !.err = R.err]
       ELSE IF Len(W.heap) >= MaxObjs THEN [W EXCEPT !.full = TRUE]
       ELSE LET S == save([W EXCEPT !.heap = Append(W.heap, R.obj)],
                          Len(W.heap) + 1)
            IN IF S.err # NoErr THEN [W EXCEPT !.err = S.err]
               ELSE S

create(W, year, summary, employee_id_arg) ==
    LET employee == IF IsInt(employee_id_arg)
                    THEN EmployeeFindById(employee_id_arg.n) ELSE None
    IN IF employee = None THEN [W EXCEPT !.err = ValueError]
       ELSE LET R == Review(year, summary, EmpVal(employee), None)
            IN IF R.err # NoErr THEN [W EXCEPT !.err = R.err]
               ELSE IF Len(W.heap) >= MaxObjs THEN [W EXCEPT !.full = TRUE]
               ELSE LET S == save([W EXCEPT !.heap = Append(W.heap, R.obj)],
                                  Len(W.heap) + 1)
                    IN IF S.err # NoErr THEN [W EXCEPT !.err = S.err]
                       ELSE S

\* instance_from_db returning the cached instance as it is
instance_from_db_no_refresh(W, row) ==
    IF W.err # NoErr \/ W.full THEN W
    ELSE LET review == Get(W.all, row.id)
             employee == EmployeeFindById(row.employee_id)
             empArg == IF employee = None THEN NoneVal ELSE EmpVal(employee)
         IN IF review # None
            THEN [W EXCEPT !.ret = Append(W.ret, review)]
            ELSE LET R == Review(IntVal(row.year), StrVal(row.summary),
                                 empArg, row.id)
                 IN IF R.err # NoErr THEN [W EXCEPT !.err = R.err]
                    ELSE IF Len(W.heap) >= MaxObjs THEN [W EXCEPT !.full = TRUE]
                    ELSE [W EXCEPT
                            !.heap = Append(W.heap, R.obj),
                            !.all = Put(W.all, row.id, Len(W.heap) + 1),
                            !.ret = Append(W.ret, Len(W.heap) + 1)]

\* instance_from_db that never consults the cache
instance_from_db_always_new(W, row) ==
    IF W.err # NoErr \/ W.full THEN W
    ELSE LET employee == EmployeeFindById(row.employee_id)
             empArg == IF employee = None THEN NoneVal ELSE EmpVal(employee)
             R == Review(IntVal(row.year), StrVal(row.summary), empArg, row.id)
         IN IF R.err # NoErr THEN [W EXCEPT !.err = R.err]
            ELSE IF Len(W.heap) >= MaxObjs THEN [W EXCEPT !.full = TRUE]
            ELSE [W EXCEPT
                    !.heap = Append(W.heap, R.obj),
                    !.all = Put(W.all, row.id, Len(W.heap) + 1),
                    !.ret = Append(W.ret, Len(W.heap) + 1)]

instance_from_db(W, row) ==
    IF W.err # NoErr \/ W.full THEN W
    ELSE LET review == Get(W.all, row.id)
             employee == EmployeeFindById(row.employee_id)
             empArg == IF employee = None THEN NoneVal ELSE EmpVal(employee)
         IN IF review # None
            THEN LET R == employee_setter(
                              summary_setter(
                                  year_setter([obj |-> W.heap[review],
                                               err |-> NoErr],
                                              IntVal(row.year)),
                                  StrVal(row.summary)),
                              empArg)
                 IN [W EXCEPT !.heap[review] = R.obj,
                              !.err = R.err,
                              !.ret = IF R.err = NoErr
                                      THEN Append(W.ret, review) ELSE W.ret]
            ELSE LET R == Review(IntVal(row.year), StrVal(row.summary),
                                 empArg, row.id)
                 IN IF R.err # NoErr THEN [W EXCEPT !.err = R.err]
                    ELSE IF Len(W.heap) >= MaxObjs THEN [W EXCEPT !.full = TRUE]
                    ELSE [W EXCEPT
                            !.heap = Append(W.heap, R.obj),
                            !.all = Put(W.all, row.id, Len(W.heap) + 1),
                            !.ret = Append(W.ret, Len(W.heap) + 1)]

\* find_by_id answering from the cache before it queries the table
find_by_id_cache_first(W, id) ==
    IF id \in DOMAIN W.all THEN [W EXCEPT !.ret = <<W.all[id]>>]
    ELSE IF ~W.tableExists THEN [W EXCEPT !.err = OperationalError]
    ELSE IF id \in RowIds(W.rows)
    THEN instance_from_db(W, RowOf(W.rows, id))
    ELSE W

find_by_id(W, id) ==
    IF ~W.tableExists THEN [W EXCEPT !.err = OperationalError]
    ELSE IF id \in RowIds(W.rows)
    THEN instance_from_db(W, RowOf(W.rows, id))
    ELSE W

\* delete removing the cache entry only when it is the receiver itself
delete_own_entry(W, self) ==
    IF ~W.tableExists THEN [W EXCEPT !.err = OperationalError]
    ELSE LET id == W.heap[self].id
         IN [W EXCEPT
               !.rows = SelectSeq(W.rows, LAMBDA r : id = None \/ r.id # id),
               !.all = IF Get(W.all, id) = self THEN Remove(W.all, id) ELSE W.all,
               !.heap[self].id = None]

\* delete that leaves the cache entry in place
delete_keeps_cache(W, self) ==
    IF ~W.tableExists THEN [W EXCEPT !.err = OperationalError]
    ELSE LET id == W.heap[self].id
         IN [W EXCEPT
               !.rows = SelectSeq(W.rows, LAMBDA r : id = None \/ r.id # id),
               !.heap[self].id = None]

\* delete without the membership test before del: a missing key raises
delete_unguarded(W, self) ==
    IF ~W.tableExists THEN [W EXCEPT !.err = OperationalError]
    ELSE LET id == W.heap[self].id
         IN IF id \notin DOMAIN W.all
            THEN [W EXCEPT
                    !.rows = SelectSeq(W.rows, LAMBDA r : id = None \/ r.id # id),
                    !.err = "KeyError"]
            ELSE [W EXCEPT
                    !.rows = SelectSeq(W.rows, LAMBDA r : id = None \/ r.id # id),
                    !.all = Remove(W.all, id),
                    !.heap[self].id = None]

delete(W, self) ==
    IF ~W.tableExists THEN [W EXCEPT !.err = OperationalError]
    ELSE LET id == W.heap[self].id
         IN [W EXCEPT
               !.rows = SelectSeq(W.rows, LAMBDA r : id = None \/ r.id # id),
               !.all = IF id \in DOMAIN W.all THEN Remove(W.all, id) ELSE W.all,
               !.heap[self].id = None]

RECURSIVE HydrateFrom(_, _, _)
HydrateFrom(W, rs, k) ==
    IF k > Len(rs) THEN W
    ELSE HydrateFrom(instance_from_db(W, rs[k]), rs, k + 1)

\* get_all reading the rows in descending rowid order
get_all_descending(W) ==
    IF ~W.tableExists THEN [W EXCEPT !.err = OperationalError]
    ELSE HydrateFrom(W, [k \in 1..Len(W.rows) |-> W.rows[Len(W.rows) + 1 - k]], 1)

get_all(W) ==
    IF ~W.tableExists THEN [W EXCEPT !.err = OperationalError]
    ELSE HydrateFrom(W, W.rows, 1)

\* ------------------------------------------------------------ input values
\* values assigned to year: accepted ones, an int below MinYear, a bool, a str
YearInputs ==
    {IntVal(MinYear), IntVal(MinYear + 1), IntVal(MinYear - 1), BoolVal(1),
     StrVal(<<"2">>)}

\* values assigned to summary: accepted ones, a blank str, None
SummaryInputs ==
    {StrVal(<<"a">>), StrVal(<<" ", "b">>), StrVal(<<" ", "\t">>), NoneVal}

\* values assigned to employee and employee_id
EmployeeInputs ==
    {EmpVal(e) : e \in Employees} \cup {IntVal(e) : e \in Employees}
        \cup {NoneVal}

IdInputs == {None} \cup Ids

\* (year, summary) arguments of a call that constructs: the valid pairs used,
\* and an invalid value next to a valid one
ValidFields ==
    {<<IntVal(MinYear), StrVal(<<"a">>)>>,
     <<IntVal(MinYear + 1), StrVal(<<" ", "b">>)>>}

InvalidFields ==
    {<<IntVal(MinYear - 1), StrVal(<<"a">>)>>, <<IntVal(MinYear), StrVal(<<>>)>>}

\* (year, summary, employee, id) of Review(...)
ConstructInputs ==
    {<<f[1], f[2], e, id>> :
        f \in ValidFields,
        e \in {EmpVal(x) : x \in Employees} \cup {NoneVal},
        id \in IdInputs}
      \cup {<<f[1], f[2], EmpVal(1), None>> : f \in InvalidFields}

\* (year, summary, employee_id) of Review.create(...)
CreateInputs ==
    {<<f[1], f[2], e>> :
        f \in ValidFields, e \in {IntVal(x) : x \in Employees} \cup {NoneVal}}
      \cup {<<f[1], f[2], IntVal(1)>> : f \in InvalidFields}

\* ---------------------------------------------------------------- actions
Objs == 1..Len(heap)

NoPre == [id |-> None, row |-> FALSE, cached |-> FALSE, unsaved |-> FALSE]

\* what held of the receiver (or of the id looked up) when the call was made:
\* its id, whether a row and a cache entry had that id, and whether the cached
\* instance carried values its row did not
PreOf(id) ==
    [id |-> id, row |-> id \in RowIds(rows), cached |-> id \in DOMAIN all,
     unsaved |-> IF id \in RowIds(rows) /\ id \in DOMAIN all
                 THEN LET o == heap[all[id]]
                          r == RowOf(rows, id)
                      IN ~(/\ r.year = o.year
                           /\ r.summary = o.summary
                           /\ r.employee_id = empId[o.employee])
                 ELSE FALSE]

NoCall == [op |-> "", self |-> None, id |-> None]

\* the call this one follows, kept when it was a delete or a table statement
\* that returned normally
After ==
    IF last.op \in {"delete", "create_table", "drop_table"} /\ last.err = NoErr
    THEN [op |-> last.op, self |-> last.self, id |-> last.pre.id]
    ELSE NoCall

\* the call ends: its effects become the state, and last records the call
Commit(W, op, self, args, pre) ==
    /\ ops < limit
    /\ ~W.full
    /\ heap' = W.heap
    /\ all' = W.all
    /\ rows' = W.rows
    /\ tableExists' = W.tableExists
    /\ last' = [op |-> op, self |-> self, args |-> args, err |-> W.err,
                ret |-> W.ret, pre |-> pre, after |-> After]
    /\ ops' = ops + 1
    /\ UNCHANGED <<empId, limit>>

\* a property assignment on a live instance
Assign(R, op, self, value) ==
    Commit([World EXCEPT !.heap[self] = R.obj, !.err = R.err],
           op, self, <<value>>, PreOf(heap[self].id))

Construct(year, summary, employee, id) ==
    LET R == Review(year, summary, employee, id)
    IN IF R.err # NoErr
       THEN Commit([World EXCEPT !.err = R.err], "Review", None, <<>>, NoPre)
       ELSE /\ Len(heap) < MaxObjs
            /\ Commit([World EXCEPT !.heap = Append(heap, R.obj),
                                    !.ret = <<Len(heap) + 1>>],
                      "Review", None, <<>>, NoPre)

SetYear(self, value) ==
    Assign(year_setter([obj |-> heap[self], err |-> NoErr], value),
           "year", self, value)

SetSummary(self, value) ==
    Assign(summary_setter([obj |-> heap[self], err |-> NoErr], value),
           "summary", self, value)

SetEmployee(self, value) ==
    Assign(employee_setter([obj |-> heap[self], err |-> NoErr], value),
           "employee", self, value)

SetEmployeeId(self, value) ==
    Assign(employee_id_setter([obj |-> heap[self], err |-> NoErr], value),
           "employee_id", self, value)

CreateTable == Commit(create_table(World), "create_table", None, <<>>, NoPre)

DropTable == Commit(drop_table(World), "drop_table", None, <<>>, NoPre)

Save(self) == Commit(save(World, self), "save", self, <<>>, PreOf(heap[self].id))

Create(year, summary, employee_id_arg) ==
    Commit(create(World, year, summary, employee_id_arg), "create", None,
           <<year, summary, employee_id_arg>>, NoPre)

FindById(id) ==
    Commit(find_by_id(World, id), "find_by_id", None, <<IntVal(id)>>, PreOf(id))

Update(self) ==
    Commit(update(World, self), "update", self, <<>>, PreOf(heap[self].id))

Delete(self) ==
    Commit(delete(World, self), "delete", self, <<>>, PreOf(heap[self].id))

GetAll == Commit(get_all(World), "get_all", None, <<>>, NoPre)

\* The Employee repository persists or deletes an Employee (the collaborator
\* acts on its own table; reviews are not touched).
EmployeeSave(e) ==
    /\ ops < limit
    /\ empId[e] = None
    /\ empId' = [empId EXCEPT ![e] = e]
    /\ last' = [op |-> "Employee.save", self |-> None, args |-> <<EmpVal(e)>>,
                err |-> NoErr, ret |-> <<>>, pre |-> NoPre, after |-> After]
    /\ ops' = ops + 1
    /\ UNCHANGED <<heap, all, tableExists, rows, limit>>

EmployeeDelete(e) ==
    /\ ops < limit
    /\ empId[e] # None
    /\ empId' = [empId EXCEPT ![e] = None]
    /\ last' = [op |-> "Employee.delete", self |-> None, args |-> <<EmpVal(e)>>,
                err |-> NoErr, ret |-> <<>>, pre |-> NoPre, after |-> After]
    /\ ops' = ops + 1
    /\ UNCHANGED <<heap, all, tableExists, rows, limit>>

\* The database file outlives the process: a run starts with no reviews
\* table, an empty one, or rows an earlier run saved.
InitRows ==
    {<<>>,
     <<[id |-> 1, year |-> MinYear, summary |-> <<"a">>, employee_id |-> 1]>>}

Init ==
    /\ heap = <<>>
    /\ all = <<>>
    /\ tableExists \in BOOLEAN
    /\ rows \in (IF tableExists THEN InitRows ELSE {<<>>})
    /\ empId = [e \in Employees |-> IF e = 1 THEN 1 ELSE None]
    /\ last = [op |-> "init", self |-> None, args |-> <<>>, err |-> NoErr,
               ret |-> <<>>, pre |-> NoPre, after |-> NoCall]
    /\ ops = 0
    /\ limit = MaxOps

Next ==
    \/ \E c \in ConstructInputs : Construct(c[1], c[2], c[3], c[4])
    \/ \E self \in Objs, v \in YearInputs : SetYear(self, v)
    \/ \E self \in Objs, v \in SummaryInputs : SetSummary(self, v)
    \/ \E self \in Objs, v \in EmployeeInputs : SetEmployee(self, v)
    \/ \E self \in Objs, v \in EmployeeInputs : SetEmployeeId(self, v)
    \/ CreateTable
    \/ DropTable
    \/ \E self \in Objs : Save(self)
    \/ \E c \in CreateInputs : Create(c[1], c[2], c[3])
    \/ \E id \in Ids : FindById(id)
    \/ \E self \in Objs : Update(self)
    \/ \E self \in Objs : Delete(self)
    \/ GetAll
    \/ \E e \in Employees : EmployeeSave(e)
    \/ \E e \in Employees : EmployeeDelete(e)

Spec == Init /\ [][Next]_vars

\* A run on stored reviews only: the reviews table exists, every instance
\* comes from create or from hydration, and the calls are the persistence
\* operations, the year and summary assignments, and the removal of an
\* Employee.
InitStored ==
    /\ heap = <<>>
    /\ all = <<>>
    /\ tableExists = TRUE
    /\ rows \in InitRows
    /\ empId = [e \in Employees |-> IF e = 1 THEN 1 ELSE None]
    /\ last = [op |-> "init", self |-> None, args |-> <<>>, err |-> NoErr,
               ret |-> <<>>, pre |-> NoPre, after |-> NoCall]
    /\ ops = 0
    /\ limit = MaxCalls

NextStored ==
    \/ \E self \in Objs, v \in YearInputs : SetYear(self, v)
    \/ \E self \in Objs, v \in SummaryInputs : SetSummary(self, v)
    \/ \E self \in Objs : Save(self)
    \/ \E c \in CreateInputs : Create(c[1], c[2], c[3])
    \/ \E id \in Ids : FindById(id)
    \/ \E self \in Objs : Update(self)
    \/ \E self \in Objs : Delete(self)
    \/ GetAll
    \/ \E e \in Employees : EmployeeDelete(e)

SpecStored == InitStored /\ [][NextStored]_vars

\* =================================================================== claims
IsRow(r, o) ==
    /\ r.id = o.id
    /\ r.year = o.year
    /\ r.summary = o.summary
    /\ r.employee_id = employee_id(o)

Hydrating == last'.op \in {"find_by_id", "get_all"}

\* C1 (as stated): no two distinct live Review instances carry the same
\* non-absent id.
C1_OneInstancePerId ==
    \A a \in Objs, b \in Objs :
        (a # b /\ heap[a].id # None) => heap[a].id # heap[b].id

\* C1 (amended): hydration (find_by_id / get_all) never replaces a cache entry;
\* every instance it returns is the one the cache maps its id to; for an id that
\* was already cached that is the instance cached before the call and no new
\* instance is created for it, so repeated hydration of an id yields no second
\* instance.
C1_HydrationKeepsIdentity ==
    [][Hydrating =>
        /\ \A k \in DOMAIN all : k \in DOMAIN all' /\ all'[k] = all[k]
        /\ \A i \in 1..Len(last'.ret) :
              LET o == last'.ret[i]
              IN /\ heap'[o].id \in DOMAIN all'
                 /\ all'[heap'[o].id] = o
                 /\ heap'[o].id \in DOMAIN all => o = all[heap'[o].id]
        /\ \A o \in 1..Len(heap') :
              o > Len(heap) => heap'[o].id \notin DOMAIN all
        /\ \A a \in 1..Len(heap'), b \in 1..Len(heap') :
              (a > Len(heap) /\ b > Len(heap) /\ a # b)
                  => heap'[a].id # heap'[b].id
    ]_vars

\* C1 witness: find_by_id returned the instance of an id that was cached
\* before the call.
C1_Witness ==
    /\ last.op = "find_by_id"
    /\ last.pre.cached
    /\ last.err = NoErr
    /\ last.ret # <<>>

\* C2: r = create(y, s, e.id) directly followed by find_by_id(r.id) returns r
\* itself, carrying year y, summary s and employee id e.id.
C2_CreateFindRoundTrip ==
    [][(/\ last.op = "create"
        /\ last.err = NoErr
        /\ last'.op = "find_by_id"
        /\ last'.args[1].n = heap[last.ret[1]].id)
       => LET r == last.ret[1]
          IN /\ last'.err = NoErr
             /\ last'.ret = <<r>>
             /\ Len(heap') = Len(heap)
             /\ heap'[r].id = heap[r].id
             /\ heap'[r].year = last.args[1].n
             /\ heap'[r].summary = last.args[2].chars
             /\ empId'[heap'[r].employee] = last.args[3].n
    ]_vars

\* C2 witness: the second call of a run is a find_by_id of a cached id that
\* returned an instance with summary " b"; only create(MinYear + 1, " b", e)
\* as the first call caches such an instance.
C2_Witness ==
    /\ ops = 2
    /\ last.op = "find_by_id"
    /\ last.pre.cached
    /\ last.err = NoErr
    /\ last.ret = <<1>>
    /\ heap[1].summary = <<" ", "b">>
    /\ heap[1].year = MinYear + 1

\* C3: save on an instance that has an id never inserts: the set of stored
\* ids and the number of rows stay the same, and so does the instance's id.
C3_SaveWithIdNeverInserts ==
    [][(last'.op = "save" /\ last'.pre.id # None)
       => /\ Len(rows') = Len(rows)
          /\ RowIds(rows') = RowIds(rows)
          /\ heap'[last'.self].id = last'.pre.id
          /\ Len(heap') = Len(heap)
    ]_vars

\* C3 witness: save returned on an instance that had an id and a stored row.
C3_Witness ==
    /\ last.op = "save"
    /\ last.pre.id # None
    /\ last.pre.row
    /\ last.err = NoErr

SavedOk ==
    LET o == heap[last.self]
    IN /\ o.id # None
       /\ o.id \in RowIds(rows)
       /\ IsRow(RowOf(rows, o.id), o)
       /\ o.id \in DOMAIN all
       /\ all[o.id] = last.self
       /\ last.ret = <<last.self>>

\* C4 (as stated): after save returns normally on any instance the store has
\* the instance's row, the cache maps its id to it, and save returned it.
C4_SaveStoresAnyInstance ==
    (last.op = "save" /\ last.err = NoErr) => SavedOk

\* C4 (amended): the same, for an instance that had no id or whose id matched
\* a stored row when save was called.
C4_SaveStoresInstance ==
    (last.op = "save" /\ last.err = NoErr /\ (last.pre.id = None \/ last.pre.row))
        => SavedOk

\* C4 witness: save returned on an instance with a stored row after its
\* summary had been changed to " b".
C4_Witness ==
    /\ last.op = "save"
    /\ last.err = NoErr
    /\ last.pre.row
    /\ heap[last.self].summary = <<" ", "b">>
    /\ heap[last.self].year = MinYear

\* C5: after delete on an instance whose id i had a stored row: no row i, no
\* cache entry i, the instance's id is None, and get_all does not return it.
C5_DeleteRemoves ==
    (last.op = "delete" /\ last.pre.id # None /\ last.pre.row)
        => /\ last.err = NoErr
           /\ last.pre.id \notin RowIds(rows)
           /\ last.pre.id \notin DOMAIN all
           /\ heap[last.self].id = None
           /\ \A k \in RowIds(rows) : Get(all, k) # last.self
           /\ LET G == get_all(World)
              IN \A i \in 1..Len(G.ret) : G.ret[i] # last.self

\* C5 witness: a cached, stored instance was deleted while another row stays.
C5_Witness ==
    /\ last.op = "delete"
    /\ last.pre.id # None
    /\ last.pre.row
    /\ last.pre.cached
    /\ rows # <<>>

\* C6: every stored row has a year >= 2000 and a summary that is not blank.
C6_StoredRowsValid ==
    \A i \in 1..Len(rows) :
        rows[i].year >= MinYear /\ Len(Strip(rows[i].summary)) > 0

\* C6 witness: a row was written by save for an instance.
C6_Witness ==
    /\ last.op = "save"
    /\ last.err = NoErr
    /\ heap[last.self].id \in RowIds(rows)

\* C7: a create that fails validation changes neither the store nor the cache
\* and leaves no instance; constructing an instance never touches the store.
C7_FailedCreateWritesNothing ==
    [][/\ (last'.op = "create" /\ last'.err = ValueError)
            => /\ rows' = rows
               /\ tableExists' = tableExists
               /\ all' = all
               /\ heap' = heap
       /\ last'.op = "Review"
            => /\ rows' = rows
               /\ tableExists' = tableExists
               /\ all' = all
    ]_vars

\* C7 witness: create(MinYear - 1, "a", 1) raised while the table exists.
C7_Witness ==
    /\ last.op = "create"
    /\ last.err = ValueError
    /\ last.args[1] = IntVal(MinYear - 1)
    /\ tableExists

\* C8: assigning year an int >= 2000 sets the year; any other value raises
\* and leaves the instance as it was.
C8_YearAssignment ==
    [][last'.op = "year"
       => LET v == last'.args[1]
              self == last'.self
          IN IF v.kind = "int" /\ v.n >= MinYear
             THEN /\ last'.err = NoErr
                  /\ heap'[self] = [heap[self] EXCEPT !.year = v.n]
             ELSE /\ last'.err = ValueError
                  /\ heap'[self] = heap[self]
    ]_vars

\* C8 witness: an assignment of MinYear - 1 raised on an instance whose year
\* is MinYear + 1.
C8_Witness ==
    /\ last.op = "year"
    /\ last.err = ValueError
    /\ last.args[1] = IntVal(MinYear - 1)
    /\ heap[last.self].year = MinYear + 1

Unpersisted(v) ==
    \/ v.kind = "emp" /\ empId[v.n] = None
    \/ v.kind = "int" /\ \A e \in Employees : empId[e] # v.n

\* C9: assigning employee or employee_id an Employee without an id, or an
\* integer no persisted Employee has, raises and leaves the employee as it
\* was; whenever an instance gets an employee, that Employee has an id.
C9_EmployeeAssignment ==
    [][/\ (last'.op \in {"employee", "employee_id"} /\ Unpersisted(last'.args[1]))
            => /\ last'.err = ValueError
               /\ heap'[last'.self] = heap[last'.self]
       /\ \A o \in 1..Len(heap') :
            (o > Len(heap) \/ heap'[o].employee # heap[o].employee)
                => /\ heap'[o].employee \in Employees
                   /\ empId[heap'[o].employee] # None
    ]_vars

\* C9 witness: assigning an Employee instance without an id raised.
C9_Witness ==
    /\ last.op = "employee"
    /\ last.args[1].kind = "emp"
    /\ empId[last.args[1].n] = None
    /\ last.err = ValueError
    /\ heap[last.self].employee # last.args[1].n

DeleteIsNoOp ==
    /\ last'.err = NoErr
    /\ rows' = rows
    /\ tableExists' = tableExists
    /\ all' = (IF last'.pre.id \in DOMAIN all THEN Remove(all, last'.pre.id)
               ELSE all)

\* C10 (as stated): delete on an instance whose id matches no stored row
\* raises nothing, leaves every row, and removes a cache entry only if there
\* was one under that id.
C10_DeleteWithoutRow ==
    [][(last'.op = "delete" /\ ~last'.pre.row) => DeleteIsNoOp]_vars

\* C10 (amended): the same, while the reviews table exists.
C10_DeleteWithoutRowInTable ==
    [][(last'.op = "delete" /\ ~last'.pre.row /\ tableExists) => DeleteIsNoOp]_vars

\* C10 witness: delete returned on an instance with no id while rows are stored.
C10_Witness ==
    /\ last.op = "delete"
    /\ ~last.pre.row
    /\ last.pre.id = None
    /\ last.err = NoErr
    /\ rows # <<>>

SameFields(a, b) ==
    a.year = b.year /\ a.summary = b.summary /\ a.employee = b.employee

\* C11: delete leaves the instance's year, summary and employee as they were,
\* and a save right after it on that instance inserts: one new row with those
\* values is appended, the instance gets the generated id, and the cache maps
\* that id to the instance.
C11_DeleteThenSaveInserts ==
    [][/\ last'.op = "delete"
            => SameFields(heap'[last'.self], heap[last'.self])
       /\ (/\ last.op = "delete"
           /\ last.err = NoErr
           /\ last'.op = "save"
           /\ last'.self = last.self)
            => LET o == heap'[last'.self]
               IN /\ last'.err = NoErr
                  /\ SameFields(o, heap[last'.self])
                  /\ o.id # None
                  /\ o.id \notin RowIds(rows)
                  /\ Len(rows') = Len(rows) + 1
                  /\ SubSeq(rows', 1, Len(rows)) = rows
                  /\ IsRow(rows'[Len(rows')], o)
                  /\ o.id \in DOMAIN all'
                  /\ all'[o.id] = last'.self
    ]_vars

\* C11 witness: save returned on an instance that the call before had deleted
\* from a stored row.
C11_Witness ==
    /\ last.op = "save"
    /\ last.err = NoErr
    /\ last.after.op = "delete"
    /\ last.after.self = last.self
    /\ last.after.id # None
    /\ heap[last.self].summary = <<" ", "b">>

\* what update does to the store: the row with the instance's id carries the
\* instance's values, every other row and the instances are as before; an
\* update that raises changes nothing
UpdateWritesOwnRow ==
    LET o == heap[last'.self]
    IN /\ heap' = heap
       /\ tableExists' = tableExists
       /\ Len(rows') = Len(rows)
       /\ \A k \in 1..Len(rows) :
             IF last'.err = NoErr /\ rows[k].id = o.id
             THEN IsRow(rows'[k], o)
             ELSE rows'[k] = rows[k]
       /\ last'.err # NoErr => all' = all

\* C12 (as stated): update writes the instance's values to the row with its id,
\* changes no other row, and never changes the cache.
C12_UpdateKeepsCache ==
    [][last'.op = "update" => (UpdateWritesOwnRow /\ all' = all)]_vars

\* C12 (amended): update writes the instance's values to the row with its id
\* and changes no other row; it sets the cache entry of the instance's id to
\* the instance and leaves every other entry, so the cache is unchanged exactly
\* when it already mapped that id to the instance.
C12_UpdateRegistersSelf ==
    [][last'.op = "update"
       => /\ UpdateWritesOwnRow
          /\ last'.err = NoErr
                => LET id == heap[last'.self].id
                   IN /\ DOMAIN all' = DOMAIN all \cup {id}
                      /\ all'[id] = last'.self
                      /\ \A k \in DOMAIN all \ {id} : all'[k] = all[k]
                      /\ (all' = all) <=> (Get(all, id) = last'.self /\ id \in DOMAIN all)
    ]_vars

\* C12 witness: update returned on the cached instance of a stored row after
\* its summary had been changed.
C12_Witness ==
    /\ last.op = "update"
    /\ last.err = NoErr
    /\ last.pre.row
    /\ last.pre.cached
    /\ all[last.pre.id] = last.self
    /\ heap[last.self].summary = <<" ", "b">>
    /\ heap[last.self].year = MinYear

ReturnedNone == last'.err = NoErr /\ last'.ret = <<>>

FindByIdAbsence ==
    LET i == last'.args[1].n
    IN /\ ReturnedNone <=> i \notin RowIds(rows)
       /\ i \notin RowIds(rows)
            => /\ rows' = rows
               /\ tableExists' = tableExists
               /\ all' = all
               /\ heap' = heap
       /\ (last.op = "delete" /\ last.err = NoErr /\ last.pre.id = i)
            => ReturnedNone

\* C13 (as stated): find_by_id(i) returns None exactly when no row has id i,
\* and then changes neither the store nor the cache; right after the delete of
\* the instance with id i it returns None.
C13_FindByIdNoneIffNoRow ==
    [][last'.op = "find_by_id" => FindByIdAbsence]_vars

\* C13 (amended): the same, while the reviews table exists.
C13_FindByIdNoneIffNoRowInTable ==
    [][(last'.op = "find_by_id" /\ tableExists) => FindByIdAbsence]_vars

\* C13 witness: find_by_id(i) returned None right after the delete of the
\* stored instance with id i.
C13_Witness ==
    /\ last.op = "find_by_id"
    /\ last.err = NoErr
    /\ last.ret = <<>>
    /\ last.after.op = "delete"
    /\ last.after.id = last.args[1].n
    /\ tableExists

\* get_all's result against the rows: one instance per row in row order, each
\* carrying its row's values and being the cache's instance for the row's id
OnePerRow ==
    /\ Len(last'.ret) = Len(rows)
    /\ \A k \in 1..Len(rows) :
          LET o == heap'[last'.ret[k]]
          IN /\ o.id = rows[k].id
             /\ o.year = rows[k].year
             /\ o.summary = rows[k].summary
             /\ empId[o.employee] = rows[k].employee_id
             /\ rows[k].id \in DOMAIN all'
             /\ all'[rows[k].id] = last'.ret[k]

\* C14 (as stated): get_all returns one instance per stored row, in row order,
\* each with its row's values and cached under the row's id, and changes no row.
C14_GetAllOnePerRow ==
    [][last'.op = "get_all"
       => /\ last'.err = NoErr
          /\ OnePerRow
          /\ rows' = rows
          /\ tableExists' = tableExists
    ]_vars

\* C14 (amended): get_all changes no row; it returns normally exactly when the
\* table exists and every row's employee_id is the id of a persisted Employee,
\* and what it then returns is one instance per stored row as above.
C14_GetAllOnePerRowWhenReturns ==
    [][last'.op = "get_all"
       => /\ rows' = rows
          /\ tableExists' = tableExists
          /\ last'.err = NoErr
                <=> /\ tableExists
                    /\ \A k \in 1..Len(rows) :
                          EmployeeFindById(rows[k].employee_id) # None
          /\ last'.err = NoErr => OnePerRow
    ]_vars

\* C14 witness: get_all returned two distinct instances for two rows, the
\* first created by the call and the second taken from the cache.
C14_Witness ==
    /\ last.op = "get_all"
    /\ last.err = NoErr
    /\ Len(rows) = 2
    /\ last.ret = <<2, 1>>

SameStore ==
    /\ rows' = rows
    /\ tableExists' = tableExists
    /\ all' = all
    /\ heap' = heap

\* C15: create_table never raises, leaves a table in place and keeps the rows
\* of an existing one; drop_table never raises and leaves no table; neither
\* touches instances or cache; the second of two calls in a row changes nothing.
C15_TableStatementsIdempotent ==
    [][/\ last'.op = "create_table"
            => /\ last'.err = NoErr
               /\ tableExists'
               /\ tableExists => rows' = rows
               /\ all' = all /\ heap' = heap
               /\ last.op = "create_table" => SameStore
       /\ last'.op = "drop_table"
            => /\ last'.err = NoErr
               /\ ~tableExists'
               /\ rows' = <<>>
               /\ all' = all /\ heap' = heap
               /\ last.op = "drop_table" => SameStore
    ]_vars

\* C15 witness: create_table was called twice in a row on a table with a row.
C15_Witness ==
    /\ last.op = "create_table"
    /\ last.after.op = "create_table"
    /\ last.err = NoErr
    /\ rows # <<>>

\* the cached instance of row r carries r's values after the call
Refreshed(r) ==
    LET o == heap'[all[r.id]]
    IN /\ o.id = heap[all[r.id]].id
       /\ o.year = r.year
       /\ o.summary = r.summary
       /\ empId[o.employee] = r.employee_id

\* C16: when find_by_id(i) or get_all returns normally, every already cached
\* instance it hydrated carries its row's year, summary and employee id,
\* whatever it carried before, and is the instance returned for that row.
C16_HydrationRefreshesInPlace ==
    [][/\ (/\ last'.op = "find_by_id"
           /\ last'.err = NoErr
           /\ last'.args[1].n \in RowIds(rows)
           /\ last'.args[1].n \in DOMAIN all)
            => /\ Refreshed(RowOf(rows, last'.args[1].n))
               /\ last'.ret = <<all[last'.args[1].n]>>
       /\ (last'.op = "get_all" /\ last'.err = NoErr)
            => \A k \in 1..Len(rows) :
                  rows[k].id \in DOMAIN all
                      => /\ Refreshed(rows[k])
                         /\ last'.ret[k] = all[rows[k].id]
    ]_vars

\* C16 witness: find_by_id returned the cached instance of an id whose row
\* differed from the instance when the call was made.
C16_Witness ==
    /\ last.op = "find_by_id"
    /\ last.err = NoErr
    /\ last.pre.cached
    /\ last.pre.unsaved
    /\ last.ret # <<>>
    /\ IsRow(RowOf(rows, last.pre.id), heap[last.ret[1]])

\* cache keys that are not the id of a stored row
StaleKeys == DOMAIN all \ RowIds(rows)

\* C17 (as stated): every key of the identity cache is the id of a stored row.
C17_NoStaleKeys == StaleKeys = {}

\* C17 (amended): only drop_table, update and save on an instance that has an
\* id can leave a cache key without a row; every other call leaves no stale
\* key that was not there before it.
C17_StaleKeysOnlyFromDropOrUpdate ==
    [][(/\ last'.op \notin {"drop_table", "update"}
        /\ ~(last'.op = "save" /\ last'.pre.id # None))
       => StaleKeys' \subseteq StaleKeys
    ]_vars

\* C17 witness: delete removed a cached, stored instance; the cache still has
\* an entry and no key is stale.
C17_Witness ==
    /\ last.op = "delete"
    /\ last.err = NoErr
    /\ last.pre.cached
    /\ last.pre.row
    /\ DOMAIN all # {}
    /\ StaleKeys = {}

\* C18: each identity-cache entry k -> r has r.id = k, and no instance without
\* an id is in the cache.
C18_KeyIdAgreement ==
    \A k \in DOMAIN all : k # None /\ heap[all[k]].id = k

\* C19: a find_by_id or get_all that raises a validation error leaves the year,
\* summary and employee of every instance as they were before the call.
C19_HydrationAtomicOnFailure ==
    [][(/\ last'.op \in {"find_by_id", "get_all"}
        /\ last'.err = ValueError)
       => \A o \in Objs : SameFields(heap'[o], heap[o])
    ]_vars

====
